---------------------------- MODULE Spec2Model ----------------------------
(***************************************************************************)
(* A model of PipelineParser.Parse (agent/pipeline_parser.go): decoding of *)
(* the pipeline document under its two legal shapes, the pre-pass over the *)
(* top-level env block, the reflective interpolation walk and the          *)
(* normalisation into a string-keyed tree.                                 *)
(*                                                                         *)
(* A string is a sequence of tokens.  A token is a piece of literal text   *)
(* ("a", "env", ...) or a variable reference: "$X" stands for the text of  *)
(* a reference to the variable named X that the evaluator refuses when X   *)
(* is not set (such as ${X?}).                                             *)
(*                                                                         *)
(* A value of the Go program is a record [t, s, e, m]:                     *)
(*   t  the dynamic type: "str", "int", "bool", "nil" (scalars), "seq"     *)
(*      ([]interface{}), "mapslice" (yaml.MapSlice), "item" (yaml.MapItem),*)
(*      "gomap" (map[interface{}]interface{}), "strmap"                    *)
(*      (map[string]interface{}); a YAML document as written is a tree of  *)
(*      the same records with "map" for a mapping node (ordered entries,   *)
(*      each an "item") and "bad" for bytes that are no YAML at all;       *)
(*   s  the text of a scalar;                                              *)
(*   e  the elements of a sequence or slice, the two fields of an item;    *)
(*   m  the content of a Go map, a function from key values to values.     *)
(***************************************************************************)
EXTENDS Naturals, Sequences, FiniteSets

---------------------------------------------------------------------------
(* Values *)

Str(s) == [t |-> "str", s |-> s, e |-> <<>>, m |-> <<>>]

Int1 == [t |-> "int", s |-> <<"1">>, e |-> <<>>, m |-> <<>>]

BoolT == [t |-> "bool", s |-> <<"true">>, e |-> <<>>, m |-> <<>>]

Null == [t |-> "nil", s |-> <<>>, e |-> <<>>, m |-> <<>>]

Bad == [t |-> "bad", s |-> <<>>, e |-> <<>>, m |-> <<>>]

SeqOf(es) == [t |-> "seq", s |-> <<>>, e |-> es, m |-> <<>>]

Item(k, v) == [t |-> "item", s |-> <<>>, e |-> <<k, v>>, m |-> <<>>]

MapOf(items) == [t |-> "map", s |-> <<>>, e |-> items, m |-> <<>>]

MapSlice(items) == [t |-> "mapslice", s |-> <<>>, e |-> items, m |-> <<>>]

GoMap(f) == [t |-> "gomap", s |-> <<>>, e |-> <<>>, m |-> f]

StrMap(f) == [t |-> "strmap", s |-> <<>>, e |-> <<>>, m |-> f]

Key(it) == it.e[1]

Val(it) == it.e[2]

IsScalar(n) == n.t \in {"str", "int", "bool", "nil"}

\* The empty function: a Go map with no entries.
EmptyMap == <<>>

\* f with key k bound to v (Go: f[k] = v).
MapPut(f, k, v) == [x \in (DOMAIN f) \cup {k} |-> IF x = k THEN v ELSE f[x]]

---------------------------------------------------------------------------
(* Errors: an error is its message, a sequence of pieces; NoErr is nil. *)

NoErr == <<>>

Ok(v) == [ok |-> TRUE, val |-> v, err |-> NoErr]

Fail(e) == [ok |-> FALSE, val |-> Null, err |-> e]

---------------------------------------------------------------------------
(* The Environment and the evaluator *)

\* The variable a reference token names.
RefName(tok) == IF tok = "$X" THEN <<"X">> ELSE <<"Y">>

IsRef(tok) == tok \in {"$X", "$Y"}

\* env.Environment.Set: binds (or overwrites) one name.
EnvSet(E, k, v) == MapPut(E, k, v)

\* interpolate.Interpolate(env, str): every reference is replaced by the
\* value of its variable; a reference to a variable the Environment does
\* not hold is an error.
RECURSIVE Interpolate(_, _)
Interpolate(E, s) ==
    IF s = <<>> THEN Ok(<<>>)
    ELSE LET tok == Head(s)
             rest == Interpolate(E, Tail(s))
         IN  IF IsRef(tok) /\ RefName(tok) \notin DOMAIN E
             THEN Fail(<<"interpolate: ", tok, " not set">>)
             ELSE IF ~rest.ok THEN rest
             ELSE IF IsRef(tok) THEN Ok(E[RefName(tok)] \o rest.val)
             ELSE Ok(<<tok>> \o rest.val)


---------------------------------------------------------------------------
(* The YAML codec (github.com/buildkite/yaml), on documents as trees *)

SyntaxErr == <<"yaml: ", "did not find expected node content">>

TypeErr(into) == <<"yaml: ", "unmarshal errors: cannot unmarshal into ", into>>

KeyErr == <<"yaml: ", "invalid map key">>

\* Results of the helpers below that yield a tuple or a function, not a value.
OkParts(v) == [ok |-> TRUE, val |-> v, err |-> NoErr]

FailParts(e) == [ok |-> FALSE, val |-> <<>>, err |-> e]

\* yaml.Unmarshal into an interface{}: a mapping becomes a Go map keyed by
\* its decoded keys (a later duplicate overwrites an earlier one, a key that
\* is itself a sequence or a mapping is refused), a sequence a []interface{}.
RECURSIVE DecodeGeneric(_), DecodeGenericSeq(_), DecodeGenericMap(_, _)
DecodeGeneric(n) ==
    CASE n.t = "bad" -> Fail(SyntaxErr)
      [] n.t = "seq" -> LET r == DecodeGenericSeq(n.e)
                        IN  IF r.ok THEN Ok(SeqOf(r.val)) ELSE Fail(r.err)
      [] n.t = "map" -> LET r == DecodeGenericMap(n.e, EmptyMap)
                        IN  IF r.ok THEN Ok(GoMap(r.val)) ELSE Fail(r.err)
      [] OTHER -> Ok(n)

DecodeGenericSeq(es) ==
    IF es = <<>> THEN OkParts(<<>>)
    ELSE LET h == DecodeGeneric(Head(es))
         IN  IF ~h.ok THEN FailParts(h.err)
             ELSE LET r == DecodeGenericSeq(Tail(es))
                  IN  IF ~r.ok THEN r ELSE OkParts(<<h.val>> \o r.val)

DecodeGenericMap(items, acc) ==
    IF items = <<>> THEN OkParts(acc)
    ELSE LET k == DecodeGeneric(Key(Head(items)))
             v == DecodeGeneric(Val(Head(items)))
         IN  IF ~k.ok THEN FailParts(k.err)
             ELSE IF ~IsScalar(k.val) THEN FailParts(KeyErr)
             ELSE IF ~v.ok THEN FailParts(v.err)
             ELSE DecodeGenericMap(Tail(items), MapPut(acc, k.val, v.val))

\* Decoding below a yaml.MapSlice target: every mapping, at any depth,
\* becomes a yaml.MapSlice, which keeps the entries as written: their order,
\* duplicate keys and keys of any type.
RECURSIVE DecodeOrdered(_)
DecodeOrdered(n) ==
    CASE n.t = "seq" -> SeqOf([i \in 1..Len(n.e) |-> DecodeOrdered(n.e[i])])
      [] n.t = "map" ->
            MapSlice([i \in 1..Len(n.e) |->
                        Item(DecodeOrdered(Key(n.e[i])), DecodeOrdered(Val(n.e[i])))])
      [] OTHER -> n

\* yaml.Unmarshal(p.Pipeline, &pipelineAsSlice) with pipelineAsSlice a
\* []interface{}: a sequence document decodes, elements generically; a null
\* document leaves the slice empty; anything else is an error.
DecodeSlice(doc) ==
    CASE doc.t = "bad" -> Fail(SyntaxErr)
      [] doc.t = "nil" -> Ok(SeqOf(<<>>))
      [] doc.t = "seq" -> DecodeGeneric(doc)
      [] OTHER -> Fail(TypeErr("[]interface {}"))

\* yaml.Unmarshal(p.Pipeline, &pipeline) with pipeline a yaml.MapSlice.
DecodeMapSlice(doc) ==
    CASE doc.t = "bad" -> Fail(SyntaxErr)
      [] doc.t = "nil" -> Ok(MapSlice(<<>>))
      [] doc.t = "map" -> Ok(DecodeOrdered(doc))
      [] OTHER -> Fail(TypeErr("yaml.MapSlice"))

\* An enumeration of a finite set (the order yaml.Marshal writes a Go map's
\* keys in; decoding the mapping gives the same Go map whatever the order).
RECURSIVE SetToSeq(_)
SetToSeq(S) ==
    IF S = {} THEN <<>>
    ELSE LET x == CHOOSE y \in S : TRUE IN <<x>> \o SetToSeq(S \ {x})

\* yaml.Marshal of a decoded or interpolated value: the document that
\* writes it.  A yaml.MapSlice is written entry by entry in its own order.
RECURSIVE Marshal(_)
Marshal(v) ==
    CASE v.t = "seq" -> SeqOf([i \in 1..Len(v.e) |-> Marshal(v.e[i])])
      [] v.t = "mapslice" ->
            MapOf([i \in 1..Len(v.e) |->
                     Item(Marshal(Key(v.e[i])), Marshal(Val(v.e[i])))])
      [] v.t = "gomap" ->
            LET ks == SetToSeq(DOMAIN v.m)
            IN  MapOf([i \in 1..Len(ks) |-> Item(Marshal(ks[i]), Marshal(v.m[ks[i]]))])
      [] OTHER -> v

---------------------------------------------------------------------------
(* yamltojson.UnmarshalAsStringMap *)

\* fmt.Sprintf("%v", k) of a scalar map key.
KeyString(k) == IF k.t = "nil" THEN <<"<nil>">> ELSE k.s

\* Every map[interface{}]interface{} becomes a map[string]interface{}, its
\* keys printed as strings; scalars keep their type.  The Go map is ranged
\* over and each entry stored under its printed key, so of two keys that
\* print alike (1 and "1") the one visited last keeps the entry, and the
\* order of visit is not fixed: the operator gives the set of results.
RECURSIVE CleanupMapValue(_), CleanupSlice(_)
CleanupMapValue(v) ==
    CASE v.t = "seq" -> {SeqOf(es) : es \in CleanupSlice(v.e)}
      [] v.t = "gomap" ->
            LET names == {Str(KeyString(k)) : k \in DOMAIN v.m}
                last == {w \in [names -> DOMAIN v.m] :
                            \A n \in names : Str(KeyString(w[n])) = n}
            IN  UNION {
                  {StrMap(f) :
                     f \in {g \in [names ->
                                     UNION {CleanupMapValue(v.m[w[n]]) : n \in names}] :
                               \A n \in names : g[n] \in CleanupMapValue(v.m[w[n]])}} :
                  w \in last}
      [] OTHER -> {v}

CleanupSlice(es) ==
    IF es = <<>> THEN {<<>>}
    ELSE {<<h>> \o t : h \in CleanupMapValue(Head(es)), t \in CleanupSlice(Tail(es))}

\* yaml.Unmarshal of the bytes into an interface{}, then the conversion: the
\* set of results.
UnmarshalAsStringMap(doc) ==
    LET r == DecodeGeneric(doc)
    IN  IF r.ok THEN {Ok(c) : c \in CleanupMapValue(r.val)} ELSE {Fail(r.err)}

---------------------------------------------------------------------------
(* PipelineParser: the helpers of Parse *)

\* mapSliceItem(key, s): the first item whose key is the string key; 0 when
\* there is none (the Go function returns the item and a flag).
mapSliceItem(key, s) ==
    IF \E i \in 1..Len(s) : Key(s[i]) = Str(key)
    THEN CHOOSE i \in 1..Len(s) :
            /\ Key(s[i]) = Str(key)
            /\ \A j \in 1..(i - 1) : Key(s[j]) # Str(key)
    ELSE 0

\* formatYAMLError: strings.TrimPrefix(err.Error(), "yaml: ").
formatYAMLError(e) == IF e # <<>> /\ Head(e) = "yaml: " THEN Tail(e) ELSE e

\* The orders in which a range over a Go map may visit its keys.
KeyOrders(S) ==
    {o \in [1..Cardinality(S) -> S] : \A i, j \in DOMAIN o : i # j => o[i] # o[j]}

\* The String case of interpolateRecursive: the string is interpolated and
\* the evaluator's error, if any, returned.
interpolateString(s, E) ==
    LET r == Interpolate(E, s)
    IN  IF r.ok THEN Ok(Str(r.val)) ELSE Fail(r.err)

\* A variant of KeyKind that reports the kind of the value the key holds.
KeyKind_dynamic(original, key) == IF key.t = "str" THEN "string" ELSE "interface"

\* key.Kind() for a key out of original.MapKeys(): the kind of the map's key
\* type, which is Interface for a map[interface{}]interface{} whatever the
\* key holds, and String for a map keyed by strings.
KeyKind(original, key) == IF original.t = "strmap" THEN "string" ELSE "interface"

\* interpolateRecursive(copy, original): the set of results the walk can
\* give for `original` under Environment E (several only where a Go map is
\* ranged over, whose order of visit is not fixed).
RECURSIVE interpolateRecursive(_, _), interpolateSlice(_, _), interpolateMap(_, _, _, _)
interpolateRecursive(original, E) ==
    CASE original.t = "str" -> {interpolateString(original.s, E)}
      [] original.t \in {"seq", "mapslice", "item"} ->
            {IF r.ok THEN Ok([original EXCEPT !.e = r.val]) ELSE Fail(r.err) :
                r \in interpolateSlice(original.e, E)}
      [] original.t \in {"gomap", "strmap"} ->
            UNION {
              {IF r.ok THEN Ok([original EXCEPT !.m = r.val]) ELSE Fail(r.err) :
                  r \in interpolateMap(original, order, EmptyMap, E)} :
              order \in KeyOrders(DOMAIN original.m)}
      [] OTHER -> {Ok(original)}

\* The elements of a slice in index order (the fields of a struct in field
\* order): the first error ends the loop.
interpolateSlice(es, E) ==
    IF es = <<>> THEN {OkParts(<<>>)}
    ELSE UNION {
           IF ~h.ok THEN {FailParts(h.err)}
           ELSE {IF r.ok THEN OkParts(<<h.val>> \o r.val) ELSE r :
                    r \in interpolateSlice(Tail(es), E)} :
           h \in interpolateRecursive(Head(es), E)}

\* The range over original.MapKeys(), visited in `order`: the value is
\* interpolated, then the key if key.Kind() is String, and the pair is
\* stored in the copy (under the interpolated key, or else under the key).
interpolateMap(original, order, copy, E) ==
    IF order = <<>> THEN {OkParts(copy)}
    ELSE LET key == Head(order)
         IN  UNION {
               IF ~v.ok THEN {FailParts(v.err)}
               ELSE IF KeyKind(original, key) = "string"
                    THEN LET k == Interpolate(E, key.s)
                         IN  IF ~k.ok THEN {FailParts(k.err)}
                             ELSE interpolateMap(original, Tail(order),
                                                 MapPut(copy, Str(k.val), v.val), E)
                    ELSE interpolateMap(original, Tail(order),
                                        MapPut(copy, key, v.val), E) :
               v \in interpolateRecursive(original.m[key], E)}

\* p.interpolate(obj): the walk of the whole document against p.Env.
interpolate(obj, E) == interpolateRecursive(obj, E)

\* %T of a value.
GoType(v) ==
    CASE v.t = "str" -> "string"
      [] v.t = "int" -> "int"
      [] v.t = "bool" -> "bool"
      [] v.t = "nil" -> "<nil>"
      [] v.t = "seq" -> "[]interface {}"
      [] v.t = "mapslice" -> "yaml.MapSlice"
      [] v.t = "item" -> "yaml.MapItem"
      [] OTHER -> "map[interface {}]interface {}"

\* The error of parseWithEnv for an env item whose value is no yaml.MapSlice:
\* the verb %T is given the item, not its value.
envShapeError(item) ==
    <<"Expected pipeline top-level env block to be a map, got ", GoType(item)>>

\* %v of a value decoded below a yaml.MapSlice (which holds no Go map): a
\* scalar prints as its text and nil as <nil>, a slice as its elements
\* between brackets and separated by spaces, a yaml.MapSlice as the slice of
\* its items, a yaml.MapItem as the struct {Key Value}.
RECURSIVE FormatV(_), FormatVElems(_)
FormatV(v) ==
    CASE v.t \in {"seq", "mapslice"} -> <<"[">> \o FormatVElems(v.e) \o <<"]">>
      [] v.t = "item" -> <<"{">> \o FormatVElems(v.e) \o <<"}">>
      [] v.t = "nil" -> <<"<nil>">>
      [] OTHER -> v.s

FormatVElems(es) ==
    IF es = <<>> THEN <<>>
    ELSE IF Len(es) = 1 THEN FormatV(es[1])
    ELSE FormatV(es[1]) \o <<" ">> \o FormatVElems(Tail(es))

\* The error of interpolateEnvBlock for an item whose key is no string: %T
\* and %v of the key.
envKeyError(key) ==
    <<"Unexpected type of ", GoType(key), " for env block key ">> \o FormatV(key)

\* A variant of interpolateEnvBlockItem that stores the template as written,
\* not its interpolation.
interpolateEnvBlockItem_rawValue(E, item) ==
    IF Key(item).t # "str"
    THEN [ok |-> FALSE, env |-> E, set |-> <<>>, err |-> envKeyError(Key(item))]
    ELSE IF Val(item).t # "str"
    THEN [ok |-> TRUE, env |-> E, set |-> <<>>, err |-> NoErr]
    ELSE LET r == Interpolate(E, Val(item).s)
         IN  IF ~r.ok
             THEN [ok |-> FALSE, env |-> E, set |-> <<>>, err |-> r.err]
             ELSE [ok |-> TRUE, env |-> EnvSet(E, Key(item).s, Val(item).s),
                   set |-> <<<<Key(item).s, Val(item).s>>>>, err |-> NoErr]

\* A variant of interpolateEnvBlockItem that calls Set before it looks at the
\* evaluator's error (the value is then the empty string).
interpolateEnvBlockItem_setOnError(E, item) ==
    IF Key(item).t # "str"
    THEN [ok |-> FALSE, env |-> E, set |-> <<>>, err |-> envKeyError(Key(item))]
    ELSE IF Val(item).t # "str"
    THEN [ok |-> TRUE, env |-> E, set |-> <<>>, err |-> NoErr]
    ELSE LET r == Interpolate(E, Val(item).s)
         IN  IF ~r.ok
             THEN [ok |-> FALSE, env |-> EnvSet(E, Key(item).s, <<>>),
                   set |-> <<<<Key(item).s, <<>>>>>>, err |-> r.err]
             ELSE [ok |-> TRUE, env |-> EnvSet(E, Key(item).s, r.val),
                   set |-> <<<<Key(item).s, r.val>>>>, err |-> NoErr]

\* One turn of the loop of interpolateEnvBlock over `item`, the Environment
\* being E: the Environment it leaves, and the error that ends the loop.
interpolateEnvBlockItem(E, item) ==
    IF Key(item).t # "str"
    THEN [ok |-> FALSE, env |-> E, set |-> <<>>, err |-> envKeyError(Key(item))]
    ELSE IF Val(item).t # "str"
    THEN [ok |-> TRUE, env |-> E, set |-> <<>>, err |-> NoErr]
    ELSE LET r == Interpolate(E, Val(item).s)
         IN  IF ~r.ok
             THEN [ok |-> FALSE, env |-> E, set |-> <<>>, err |-> r.err]
             ELSE [ok |-> TRUE, env |-> EnvSet(E, Key(item).s, r.val),
                   set |-> <<<<Key(item).s, r.val>>>>, err |-> NoErr]

---------------------------------------------------------------------------
(* The documents and Environments Parse is run on *)

MaxEnvEntries == 2

MaxSeqLen == 2

S(tok) == Str(<<tok>>)

Templates == {<<"a">>, <<"$X">>, <<"$Y">>, <<"$X", "a">>}

\* An entry of an env block: a variable and its template, a value that is
\* no string, a key that is no string (a number, a sequence, a mapping).
EnvEntries ==
    {Item(S(k), Str(v)) : k \in {"X", "Y"}, v \in Templates}
        \cup {Item(S("X"), Int1), Item(Int1, S("a")),
              Item(SeqOf(<<S("a")>>), S("b")),
              Item(MapOf(<<Item(S("a"), S("b"))>>), S("a"))}

EnvBlocks == UNION {[1..n -> EnvEntries] : n \in 0..MaxEnvEntries}

ComplexKeyItem == Item(SeqOf(<<S("$X")>>), S("a"))

\* Mapping documents with an env block, alone or followed by one more entry.
EnvDocs ==
    {MapOf(<<Item(S("env"), MapOf(b))>> \o t) :
        b \in EnvBlocks, t \in {<<>>, <<Item(S("steps"), S("$Y"))>>}}
    \cup {MapOf(<<Item(S("env"), MapOf(<<en>>)), ComplexKeyItem>>) : en \in EnvEntries}

NotAMap == {S("a"), S("$Y"), Int1, BoolT, Null, SeqOf(<<S("a")>>)}

XisA == MapOf(<<Item(S("X"), S("a"))>>)

\* Mapping documents whose env entry is no mapping, alone or beside a second
\* entry keyed env.
EnvShapeDocs ==
    {MapOf(<<Item(S("env"), v)>>) : v \in NotAMap}
    \cup {MapOf(<<Item(S("env"), v), Item(S("env"), XisA)>>) : v \in NotAMap}
    \cup {MapOf(<<Item(S("env"), XisA), Item(S("env"), v)>>) : v \in NotAMap}

\* The elements of sequence documents: scalars, a mapping with an env key,
\* a mapping keyed by a reference, a mapping with two keys that interpolate
\* alike when X and Y are equal, a mapping holding a sequence, a mapping
\* keyed by a sequence.
SeqElems ==
    {S("a"), S("$X"), Int1,
     MapOf(<<Item(S("env"), XisA)>>),
     MapOf(<<Item(S("$Y"), S("a"))>>),
     MapOf(<<Item(S("$X"), S("a")), Item(S("$Y"), S("$X"))>>),
     MapOf(<<Item(S("a"), SeqOf(<<S("$Y"), Null>>))>>),
     MapOf(<<ComplexKeyItem>>)}

SeqDocs == {SeqOf(es) : es \in UNION {[1..n -> SeqElems] : n \in 0..MaxSeqLen}}

\* Mapping documents without an env block (one of them with the keys 1 and
\* "1", which print alike).
PlainDocs ==
    {MapOf(<<Item(S("steps"), v)>>) : v \in SeqElems \cup {SeqOf(<<el>>) : el \in SeqElems}}
    \cup {MapOf(<<>>),
          MapOf(<<Item(S("ENV"), S("a"))>>),
          MapOf(<<Item(Int1, S("$X"))>>),
          MapOf(<<Item(Int1, S("$X")), Item(S("1"), S("a"))>>),
          MapOf(<<Item(S("$X"), S("a")), Item(S("$Y"), S("$X"))>>),
          MapOf(<<Item(S("$X"), XisA), Item(BoolT, Null)>>)}

Documents == EnvDocs \cup EnvShapeDocs \cup SeqDocs \cup PlainDocs
                \cup {Bad, Null, S("a"), S("$X")}

Vars == {<<"X">>, <<"Y">>}

\* The caller's Environment: each of X, Y unset or "b".
Environments == UNION {[D -> {<<"b">>}] : D \in SUBSET Vars}

Filenames == {"", "pipeline.yml"}

---------------------------------------------------------------------------
(* Parse as a state machine *)

VARIABLES
    doc,            \* p.Pipeline, the document as written
    filename,       \* p.Filename
    noInterp,       \* p.NoInterpolation
    env0,           \* the Environment Parse was called with
    env,            \* p.Env, the Environment now
    pc,             \* the stage Parse has reached
    shape,          \* "sequence" or "map" once detected
    pipeline,       \* the decoded document
    envIdx,         \* interpolateEnvBlock: the next entry of the env block
    interpolated,   \* the copy the walk made
    result,         \* the value Parse returns (Null: nil)
    err,            \* the error Parse returns (NoErr: nil)
    trace,          \* the stages passed, in order
    sets,           \* the calls of Environment.Set, in order
    evaluated       \* whether the evaluator was invoked

vars == <<doc, filename, noInterp, env0, env, pc, shape, pipeline, envIdx,
          interpolated, result, err, trace, sets, evaluated>>

Init ==
    /\ doc \in Documents
    /\ filename \in Filenames
    /\ noInterp \in BOOLEAN
    /\ env0 \in Environments
    /\ env = env0
    /\ pc = "Start"
    /\ shape = "none"
    /\ pipeline = Null
    /\ envIdx = 0
    /\ interpolated = Null
    /\ result = Null
    /\ err = NoErr
    /\ trace = <<"Start">>
    /\ sets = <<>>
    /\ evaluated = FALSE

errPrefix == IF filename = "" THEN <<"Failed to parse pipeline">>
             ELSE <<"Failed to parse ", filename>>

\* fmt.Errorf("%s: %v", errPrefix, formatYAMLError(err))
Wrapped(e) == errPrefix \o <<": ">> \o formatYAMLError(e)

\* return nil, e
ReturnError(e) ==
    /\ pc' = "Failed"
    /\ err' = e
    /\ result' = Null
    /\ trace' = Append(trace, "Failed")

Goto(stage, name) ==
    /\ pc' = stage
    /\ trace' = Append(trace, name)

\* All strings of a value: string leaves and string keys at any depth.
RECURSIVE StringsOf(_)
StringsOf(v) ==
    CASE v.t = "str" -> {v.s}
      [] v.t \in {"seq", "map", "mapslice", "item"} ->
            UNION {StringsOf(v.e[i]) : i \in 1..Len(v.e)}
      [] v.t \in {"gomap", "strmap"} ->
            UNION {StringsOf(k) \cup StringsOf(v.m[k]) : k \in DOMAIN v.m}
      [] OTHER -> {}

\* The strings the walk of a decoded document hands to the evaluator: the
\* string values, and the string keys of a yaml.MapSlice (fields of its
\* items); the keys of a map[interface{}]interface{} are not among them.
RECURSIVE StringsWalked(_)
StringsWalked(v) ==
    CASE v.t = "str" -> {v.s}
      [] v.t \in {"seq", "mapslice", "item"} ->
            UNION {StringsWalked(v.e[i]) : i \in 1..Len(v.e)}
      [] v.t = "gomap" -> UNION {StringsWalked(v.m[k]) : k \in DOMAIN v.m}
      [] OTHER -> {}

\* The env block of the decoded mapping document.
EnvBlock == Val(pipeline.e[mapSliceItem(<<"env">>, pipeline.e)]).e

\* A variant of ParseNoInterpolation in which the flag skips the env pre-pass
\* only: the strings of the decoded document are still interpolated.
ParseNoInterpolation_interpolating ==
    /\ pc = "Start"
    /\ noInterp
    /\ LET r == DecodeGeneric(doc)
       IN  IF r.ok
           THEN \E o \in interpolateRecursive(r.val, env) :
                   IF o.ok
                   THEN /\ result' \in CleanupMapValue(o.val)
                        /\ Goto("Normalized", "Normalized")
                        /\ UNCHANGED err
                   ELSE ReturnError(o.err)
           ELSE ReturnError(Wrapped(r.err))
    /\ evaluated' = (StringsOf(doc) # {})
    /\ UNCHANGED <<doc, filename, noInterp, env0, env, shape, pipeline, envIdx,
                   interpolated, sets>>

\* Parse with NoInterpolation: UnmarshalAsStringMap of the bytes, nothing else.
ParseNoInterpolation ==
    /\ pc = "Start"
    /\ noInterp
    /\ \E r \in UnmarshalAsStringMap(doc) :
          IF r.ok
          THEN /\ result' = r.val
               /\ Goto("Normalized", "Normalized")
               /\ UNCHANGED err
          ELSE ReturnError(Wrapped(r.err))
    /\ UNCHANGED <<doc, filename, noInterp, env0, env, shape, pipeline, envIdx,
                   interpolated, sets, evaluated>>

\* The document is decoded as a slice, or else (parseWithEnv) as a MapSlice.
DetectShape ==
    /\ pc = "Start"
    /\ ~noInterp
    /\ LET asSlice == DecodeSlice(doc)
           asMap == DecodeMapSlice(doc)
       IN  IF asSlice.ok
           THEN /\ pipeline' = asSlice.val
                /\ shape' = "sequence"
                /\ Goto("ShapeDetected", "ShapeDetected(sequence)")
                /\ UNCHANGED <<err, result>>
           ELSE IF asMap.ok
           THEN /\ pipeline' = asMap.val
                /\ shape' = "map"
                /\ Goto("ShapeDetected", "ShapeDetected(map)")
                /\ UNCHANGED <<err, result>>
           ELSE /\ ReturnError(Wrapped(asMap.err))
                /\ UNCHANGED <<pipeline, shape>>
    /\ UNCHANGED <<doc, filename, noInterp, env0, env, envIdx, interpolated,
                   sets, evaluated>>

CanPrePass == pc = "ShapeDetected" /\ shape = "map"

\* parseWithEnv after the decode: the env item is looked up and its value
\* must be a MapSlice.
LocateEnvBlock ==
    /\ CanPrePass
    /\ LET i == mapSliceItem(<<"env">>, pipeline.e)
       IN  IF i = 0
           THEN /\ Goto("EnvPrePassed", "EnvPrePassed")
                /\ UNCHANGED <<err, result, envIdx>>
           ELSE IF Val(pipeline.e[i]).t = "mapslice"
           THEN /\ Goto("EnvPrePass", "EnvPrePass")
                /\ envIdx' = 1
                /\ UNCHANGED <<err, result>>
           ELSE /\ ReturnError(Wrapped(envShapeError(pipeline.e[i])))
                /\ UNCHANGED envIdx
    /\ UNCHANGED <<doc, filename, noInterp, env0, env, shape, pipeline,
                   interpolated, sets, evaluated>>

\* A variant of EnvBlockStep that writes the interpolated value back into the
\* entry of the decoded document.
EnvBlockStep_writeBack ==
    /\ pc = "EnvPrePass"
    /\ IF envIdx > Len(EnvBlock)
       THEN /\ Goto("EnvPrePassed", "EnvPrePassed")
            /\ UNCHANGED <<err, result, env, sets, envIdx, evaluated, pipeline>>
       ELSE LET item == EnvBlock[envIdx]
                r == interpolateEnvBlockItem(env, item)
                at == mapSliceItem(<<"env">>, pipeline.e)
            IN  /\ evaluated' = (evaluated \/ (Key(item).t = "str" /\ Val(item).t = "str"))
                /\ env' = r.env
                /\ sets' = sets \o r.set
                /\ pipeline' = IF r.set = <<>> THEN pipeline
                               ELSE [pipeline EXCEPT
                                        !.e[at].e[2].e[envIdx].e[2] = Str(r.set[1][2])]
                /\ IF r.ok
                   THEN /\ envIdx' = envIdx + 1
                        /\ UNCHANGED <<pc, trace, err, result>>
                   ELSE /\ ReturnError(Wrapped(r.err))
                        /\ UNCHANGED envIdx
    /\ UNCHANGED <<doc, filename, noInterp, env0, shape, interpolated>>

\* interpolateEnvBlock: one turn of its loop, or its end.
EnvBlockStep ==
    /\ pc = "EnvPrePass"
    /\ IF envIdx > Len(EnvBlock)
       THEN /\ Goto("EnvPrePassed", "EnvPrePassed")
            /\ UNCHANGED <<err, result, env, sets, envIdx, evaluated>>
       ELSE LET item == EnvBlock[envIdx]
                r == interpolateEnvBlockItem(env, item)
            IN  /\ evaluated' = (evaluated \/ (Key(item).t = "str" /\ Val(item).t = "str"))
                /\ env' = r.env
                /\ sets' = sets \o r.set
                /\ IF r.ok
                   THEN /\ envIdx' = envIdx + 1
                        /\ UNCHANGED <<pc, trace, err, result>>
                   ELSE /\ ReturnError(Wrapped(r.err))
                        /\ UNCHANGED envIdx
    /\ UNCHANGED <<doc, filename, noInterp, env0, shape, pipeline, interpolated>>

\* A variant of CanInterpolate under which the walk does not wait for the
\* env pre-pass of a mapping document.
CanInterpolate_beforePrePass == pc \in {"EnvPrePassed", "ShapeDetected"}

CanInterpolate ==
    \/ pc = "EnvPrePassed"
    \/ pc = "ShapeDetected" /\ shape = "sequence"

\* Set(k, v) for every string entry (k, v) of the Go map m, keys taken in
\* the order ks.
RECURSIVE SetAll(_, _, _)
SetAll(E, m, ks) ==
    IF ks = <<>> THEN E
    ELSE IF Head(ks).t = "str" /\ m[Head(ks)].t = "str"
    THEN SetAll(EnvSet(E, Head(ks).s, m[Head(ks)].s), m, Tail(ks))
    ELSE SetAll(E, m, Tail(ks))

\* A variant of InterpolateTree in which the walk of a sequence document
\* treats the env mapping of an element as the top-level env block and
\* stores its entries in the Environment.
InterpolateTree_exporting ==
    /\ CanInterpolate
    /\ \E o \in interpolate(pipeline, env) :
          /\ IF o.ok
             THEN /\ interpolated' = o.val
                  /\ Goto("Interpolated", "Interpolated")
                  /\ UNCHANGED <<err, result>>
             ELSE /\ ReturnError(o.err)
                  /\ UNCHANGED interpolated
          /\ LET blocks == {i \in 1..Len(o.val.e) :
                              /\ o.val.t = "seq"
                              /\ o.val.e[i].t = "gomap"
                              /\ S("env") \in DOMAIN o.val.e[i].m
                              /\ o.val.e[i].m[S("env")].t = "gomap"}
             IN  env' = IF ~o.ok \/ blocks = {} THEN env
                        ELSE LET b == o.val.e[CHOOSE i \in blocks : TRUE].m[S("env")].m
                             IN  SetAll(env, b, SetToSeq(DOMAIN b))
    /\ evaluated' = (evaluated \/ StringsWalked(pipeline) # {})
    /\ UNCHANGED <<doc, filename, noInterp, env0, shape, pipeline, envIdx, sets>>

\* p.interpolate(pipeline): the walk; its error is returned as it is.
InterpolateTree ==
    /\ CanInterpolate
    /\ \E o \in interpolate(pipeline, env) :
          IF o.ok
          THEN /\ interpolated' = o.val
               /\ Goto("Interpolated", "Interpolated")
               /\ UNCHANGED <<err, result>>
          ELSE /\ ReturnError(o.err)
               /\ UNCHANGED interpolated
    /\ evaluated' = (evaluated \/ StringsWalked(pipeline) # {})
    /\ UNCHANGED <<doc, filename, noInterp, env0, env, shape, pipeline, envIdx, sets>>

\* yaml.Marshal(interpolated), then UnmarshalAsStringMap of the bytes.
Normalize ==
    /\ pc = "Interpolated"
    /\ \E r \in UnmarshalAsStringMap(Marshal(interpolated)) :
          IF r.ok
          THEN /\ result' = r.val
               /\ Goto("Normalized", "Normalized")
               /\ UNCHANGED err
          ELSE ReturnError(Wrapped(r.err))
    /\ UNCHANGED <<doc, filename, noInterp, env0, env, shape, pipeline, envIdx,
                   interpolated, sets, evaluated>>

\* return result, nil
Return ==
    /\ pc = "Normalized"
    /\ Goto("Done", "Done")
    /\ UNCHANGED <<doc, filename, noInterp, env0, env, shape, pipeline, envIdx,
                   interpolated, result, err, sets, evaluated>>

Next ==
    \/ ParseNoInterpolation
    \/ DetectShape
    \/ LocateEnvBlock
    \/ EnvBlockStep
    \/ InterpolateTree
    \/ Normalize
    \/ Return

Spec == Init /\ [][Next]_vars

---------------------------------------------------------------------------
(* Properties *)

Range(f) == {f[i] : i \in DOMAIN f}

\* The stage from which Parse failed.
FailedFrom == IF pc = "Failed" THEN trace[Len(trace) - 1] ELSE "none"

\* The decoded document is a mapping whose first env item holds a mapping.
HasEnvBlock ==
    /\ shape = "map"
    /\ mapSliceItem(<<"env">>, pipeline.e) # 0
    /\ Val(pipeline.e[mapSliceItem(<<"env">>, pipeline.e)]).t = "mapslice"

PrePassed == "EnvPrePassed" \in Range(trace)

IsStringEntry(it) == Key(it).t = "str" /\ Val(it).t = "str"

\* The Environment declared in order: Set(k, Interpolate(E, v)) for each
\* string-valued entry in declaration order, against the Environment as the
\* earlier entries left it.
RECURSIVE ExpectedEnv(_, _)
ExpectedEnv(E, items) ==
    IF items = <<>> THEN E
    ELSE LET it == Head(items)
         IN  IF IsStringEntry(it)
             THEN ExpectedEnv(EnvSet(E, Key(it).s, Interpolate(E, Val(it).s).val),
                              Tail(items))
             ELSE ExpectedEnv(E, Tail(items))

\* The Set calls of the declarations, in order.
RECURSIVE ExpectedSets(_, _)
ExpectedSets(E, items) ==
    IF items = <<>> THEN <<>>
    ELSE LET it == Head(items)
         IN  IF IsStringEntry(it)
             THEN LET v == Interpolate(E, Val(it).s).val
                  IN  <<<<Key(it).s, v>>>> \o
                          ExpectedSets(EnvSet(E, Key(it).s, v), Tail(items))
             ELSE ExpectedSets(E, Tail(items))

\* C1: after a successful env pre-pass of a mapping document the Environment
\* is the initial one with Set(ki, Interpolate(E_{i-1}, vi)) applied for each
\* string-valued entry in declaration order, E_{i-1} being the Environment as
\* entries 1..i-1 left it; entries whose value is no string cause no Set; a
\* mapping document without an env entry leaves the Environment as it was.
C1_EnvPrePassSequential ==
    PrePassed =>
        IF HasEnvBlock
        THEN /\ env = ExpectedEnv(env0, EnvBlock)
             /\ sets = ExpectedSets(env0, EnvBlock)
        ELSE env = env0 /\ sets = <<>>

\* A pre-pass has succeeded on a block whose second entry references the
\* variable its first entry declares (with a value other than the caller's)
\* and was given that entry's interpolated value.
C1_Witness ==
    /\ PrePassed
    /\ HasEnvBlock
    /\ Len(EnvBlock) = 2
    /\ IsStringEntry(EnvBlock[1])
    /\ Key(EnvBlock[1]).s = <<"X">>
    /\ EnvBlock[2] = Item(S("Y"), S("$X"))
    /\ <<"X">> \in DOMAIN env0
    /\ env[<<"X">>] # env0[<<"X">>]
    /\ env[<<"Y">>] = env[<<"X">>]

HasPrefix(e) ==
    /\ Len(e) >= Len(errPrefix)
    /\ SubSeq(e, 1, Len(errPrefix)) = errPrefix

\* C2: every error Parse returns, whichever stage produced it, carries the
\* context prefix "Failed to parse <Filename>" ("Failed to parse pipeline"
\* when Filename is empty).
C2_EveryErrorPrefixed == pc = "Failed" => HasPrefix(err)

\* The one-to-one correspondences between two finite sets.
Bijections(A, B) ==
    {f \in [A -> B] : \A b \in B : \E a \in A : f[a] = b /\ \A a2 \in A : f[a2] = b => a2 = a}

\* b has the shape of a: the same variant, the same length or number of
\* entries, position by position (for a Go map, entry by entry under some
\* one-to-one correspondence); only strings may differ in value.
RECURSIVE SameShape(_, _)
SameShape(a, b) ==
    /\ a.t = b.t
    /\ CASE a.t = "str" -> TRUE
         [] a.t \in {"seq", "mapslice", "item"} ->
               /\ Len(a.e) = Len(b.e)
               /\ \A i \in 1..Len(a.e) : SameShape(a.e[i], b.e[i])
         [] a.t = "gomap" ->
               /\ Cardinality(DOMAIN a.m) = Cardinality(DOMAIN b.m)
               /\ \E f \in Bijections(DOMAIN a.m, DOMAIN b.m) :
                     \A k \in DOMAIN a.m :
                        SameShape(k, f[k]) /\ SameShape(a.m[k], b.m[f[k]])
         [] OTHER -> a = b

WalkSucceeded == "Interpolated" \in Range(trace)

\* C3: whenever the tree interpolation succeeds, the copy has the shape of
\* its source at every depth: same variant, same sequence length, and for
\* every mapping the same number of entries, also when two distinct string
\* keys of a mapping interpolate to the same string and also for mappings
\* inside a sequence-shaped document.
C3_ShapePreserved == WalkSucceeded => SameShape(pipeline, interpolated)

\* The walk has succeeded on a sequence document with a mapping whose two
\* string keys interpolate to the same string, and the copy has both entries.
C3_Witness ==
    /\ WalkSucceeded
    /\ shape = "sequence"
    /\ Interpolate(env, <<"$X">>) = Interpolate(env, <<"$Y">>)
    /\ \E i \in 1..Len(pipeline.e) :
          /\ pipeline.e[i].t = "gomap"
          /\ {S("$X"), S("$Y")} \subseteq DOMAIN pipeline.e[i].m
          /\ Cardinality(DOMAIN interpolated.e[i].m) = 2
          /\ interpolated.e[i].m # pipeline.e[i].m

\* The evaluator refuses a string of the decoded document, a string value
\* or a string key at any depth, under the Environment as it stands.
SomeStringFails == \E str \in StringsOf(pipeline) : ~Interpolate(env, str).ok

\* The walk has run: it succeeded, or Parse failed in it.
WalkAttempted ==
    WalkSucceeded \/ FailedFrom \in {"EnvPrePassed", "ShapeDetected(sequence)"}

\* C4: if the evaluator returns an error for a string value or a string map
\* key anywhere in the document, or for a string value of the env block,
\* Parse returns an error and a nil result: no entry of the env block is
\* passed over with its error, the walk never succeeds on a document that
\* holds a string value or a string key the evaluator refuses (so no result
\* holds the failing template as written), and a failed Parse returns no
\* result.
C4_EvaluatorErrorFailsParse ==
    /\ "EnvPrePass" \in Range(trace) =>
          /\ \A i \in 1..Len(EnvBlock) :
                (i < envIdx /\ IsStringEntry(EnvBlock[i])) =>
                    Interpolate(ExpectedEnv(env0, SubSeq(EnvBlock, 1, i - 1)),
                                Val(EnvBlock[i]).s).ok
          /\ pc \notin {"EnvPrePass", "Failed"} => envIdx = Len(EnvBlock) + 1
    /\ (WalkAttempted /\ SomeStringFails) => pc = "Failed"
    /\ pc = "Failed" => result = Null /\ err # NoErr
    /\ pc = "Done" => err = NoErr

\* The text of every scalar of a document, printed as a map key would be.
RECURSIVE ScalarTexts(_)
ScalarTexts(v) ==
    IF IsScalar(v) THEN {KeyString(v)}
    ELSE UNION {ScalarTexts(v.e[i]) : i \in 1..Len(v.e)}

\* Two keys of a mapping that end under one key of the result: the same key
\* twice, or two scalars that print alike.
PrintAlike(k1, k2) ==
    \/ k1 = k2
    \/ IsScalar(k1) /\ IsScalar(k2) /\ KeyString(k1) = KeyString(k2)

\* No mapping of the document has two entries whose keys are equal or print
\* alike.
RECURSIVE NoCollidingKeys(_)
NoCollidingKeys(v) ==
    /\ \A i \in 1..Len(v.e) : NoCollidingKeys(v.e[i])
    /\ v.t = "map" =>
          \A i, j \in 1..Len(v.e) : PrintAlike(Key(v.e[i]), Key(v.e[j])) => i = j

\* With NoInterpolation set Parse goes from the bytes straight to
\* normalisation: no shape detection, no env pre-pass, no walk, the
\* evaluator never invoked, Environment.Set never called (the Environment
\* stays as the caller gave it), and every string of the result is text of
\* the document as written.
NoInterpolationFrame ==
    /\ env = env0
    /\ sets = <<>>
    /\ ~evaluated
    /\ shape = "none" /\ pipeline = Null /\ interpolated = Null
    /\ trace \in {<<"Start">>, <<"Start", "Failed">>, <<"Start", "Normalized">>,
                  <<"Start", "Normalized", "Done">>}
    /\ pc \in {"Normalized", "Done"} => StringsOf(result) \subseteq ScalarTexts(doc)

\* C5 as first stated: with NoInterpolation set nothing but the normalisation
\* runs, the Environment is left as given, and every string of the document
\* appears verbatim in the result, whatever the document.
C5_AsStated ==
    noInterp =>
        /\ NoInterpolationFrame
        /\ pc \in {"Normalized", "Done"} => StringsOf(doc) \subseteq StringsOf(result)

\* C5: with NoInterpolation set nothing but the normalisation runs, the
\* Environment is left as given, no string of the result is interpolated,
\* and every string of the document appears verbatim in the result unless a
\* mapping of the document has two entries whose keys are equal or print
\* alike (the result then keeps one of the two entries only).
C5_NoInterpolationIsVerbatim ==
    noInterp =>
        /\ NoInterpolationFrame
        /\ (pc \in {"Normalized", "Done"} /\ NoCollidingKeys(doc)) =>
              StringsOf(doc) \subseteq StringsOf(result)

\* Parse is done with NoInterpolation on a mapping document with an env
\* block that declares X by a reference, X being set in the Environment:
\* the reference is in the result as written.
C5_Witness ==
    /\ noInterp
    /\ pc = "Done"
    /\ doc.t = "map"
    /\ Len(doc.e) = 2
    /\ Key(doc.e[1]) = S("env")
    /\ Val(doc.e[1]) = MapOf(<<Item(S("X"), S("$Y"))>>)
    /\ <<"Y">> \in DOMAIN env0
    /\ result.m[S("env")].m[S("X")] = S("$Y")
    /\ result.m[S("steps")] = S("$Y")

\* C6: for a mapping document whose first entry keyed env has a value that
\* is no mapping, Parse fails with the error that names the type of that
\* value, before any Environment.Set and before any interpolation.
C6_ShapeErrorNamesValueType ==
    FailedFrom = "ShapeDetected(map)" =>
        /\ err = Wrapped(<<"Expected pipeline top-level env block to be a map, got ",
                           GoType(Val(pipeline.e[mapSliceItem(<<"env">>, pipeline.e)]))>>)
        /\ env = env0
        /\ sets = <<>>
        /\ ~evaluated
        /\ interpolated = Null

\* The steps from one stage to the next that the stage order allows.
StageSteps ==
    IF noInterp
    THEN {<<"Start", "Normalized">>, <<"Start", "Failed">>, <<"Normalized", "Done">>}
    ELSE {<<"Start", "ShapeDetected(sequence)">>, <<"Start", "ShapeDetected(map)">>,
          <<"ShapeDetected(map)", "EnvPrePass">>, <<"ShapeDetected(map)", "EnvPrePassed">>,
          <<"EnvPrePass", "EnvPrePassed">>,
          <<"ShapeDetected(sequence)", "Interpolated">>,
          <<"EnvPrePassed", "Interpolated">>,
          <<"Interpolated", "Normalized">>, <<"Normalized", "Done">>}
         \cup {<<st, "Failed">> :
                 st \in {"Start", "ShapeDetected(sequence)", "ShapeDetected(map)",
                         "EnvPrePass", "EnvPrePassed", "Interpolated"}}

\* Some step of Parse can be taken (each step is enabled by its guard alone,
\* the walk having at least one outcome).
SomeStepEnabled ==
    \/ pc = "Start"
    \/ CanPrePass
    \/ pc = "EnvPrePass"
    \/ CanInterpolate /\ interpolate(pipeline, env) # {}
    \/ pc = "Interpolated"
    \/ pc = "Normalized"

\* C7: every run of Parse follows the stage order Start, ShapeDetected,
\* EnvPrePassed (after ShapeDetected(map) only), Interpolated, Normalized,
\* Done, or ends in Failed; with interpolation enabled Normalized is not
\* reached without Interpolated, nor Interpolated before the end of the env
\* pre-pass of a mapping document; the only skip is NoInterpolation going
\* from Start to Normalized; a run ends in Done (no error) or in Failed
\* (an error and no result), and nowhere else.
C7_StageOrder ==
    /\ trace[1] = "Start"
    /\ \A i \in 1..(Len(trace) - 1) : <<trace[i], trace[i + 1]>> \in StageSteps
    /\ ~noInterp =>
          /\ "Normalized" \in Range(trace) => "Interpolated" \in Range(trace)
          /\ ("Interpolated" \in Range(trace) /\ shape = "map") =>
                /\ PrePassed
                /\ HasEnvBlock => envIdx = Len(EnvBlock) + 1
          /\ shape = "sequence" => ~PrePassed /\ "EnvPrePass" \notin Range(trace)
    /\ pc = "Done" => err = NoErr
    /\ pc = "Failed" => err # NoErr /\ result = Null
    /\ pc \notin {"Done", "Failed"} => err = NoErr /\ SomeStepEnabled

\* A run through every stage of a mapping document with an env block.
C7_Witness ==
    /\ pc = "Done"
    /\ trace = <<"Start", "ShapeDetected(map)", "EnvPrePass", "EnvPrePassed",
                 "Interpolated", "Normalized", "Done">>
    /\ sets # <<>>

\* C8: Environment.Set is called only by the env pre-pass of a mapping
\* document; the walk leaves the Environment as it found it, succeed or
\* fail; for a document that decodes as a sequence the Environment after
\* Parse is the Environment before, also when an element is a mapping with
\* an env key.
C8_OnlyPrePassSets ==
    /\ [][/\ CanInterpolate => env' = env /\ sets' = sets
          /\ (env' # env \/ sets' # sets) => pc = "EnvPrePass" /\ shape = "map"]_vars
    /\ [](shape = "sequence" => env = env0 /\ sets = <<>>)

\* Parse is done with a sequence document one element of which is a mapping
\* with an env key that declares X, and X is still unset.
C8_Witness ==
    /\ pc = "Done"
    /\ shape = "sequence"
    /\ \E i \in 1..Len(pipeline.e) :
          /\ pipeline.e[i].t = "gomap"
          /\ S("env") \in DOMAIN pipeline.e[i].m
          /\ S("X") \in DOMAIN pipeline.e[i].m[S("env")].m
    /\ env = env0
    /\ <<"X">> \notin DOMAIN env

\* The env item of the decoded document and of the interpolated copy.
EnvIndex == mapSliceItem(<<"env">>, pipeline.e)

\* The Environment the pre-pass interpolated entry i of the env block against.
EnvBefore(i) == ExpectedEnv(env0, SubSeq(EnvBlock, 1, i - 1))

\* The value the pre-pass stored for entry i, and the value the walk gives it.
StoredValue(i) == Interpolate(EnvBefore(i), Val(EnvBlock[i]).s).val

WalkedValue(i) == Interpolate(env, Val(EnvBlock[i]).s).val

\* The variables a string references.
RefsOf(str) == {RefName(str[i]) : i \in {j \in 1..Len(str) : IsRef(str[j])}}

\* No string-valued entry references a variable that the same or a later
\* string-valued entry of the block sets.
NoLaterSetRef ==
    \A i \in 1..Len(EnvBlock) : \A j \in i..Len(EnvBlock) :
        (IsStringEntry(EnvBlock[i]) /\ IsStringEntry(EnvBlock[j])) =>
            Key(EnvBlock[j]).s \notin RefsOf(Val(EnvBlock[i]).s)

AllEntriesEqual ==
    \A i \in 1..Len(EnvBlock) :
        IsStringEntry(EnvBlock[i]) => WalkedValue(i) = StoredValue(i)

\* Entry i of the env block is the one the result shows under its key: no
\* later top-level entry interpolates to the key env, and no later entry of
\* the block to the key of entry i.
ShownInResult(i) ==
    /\ \A t \in (EnvIndex + 1)..Len(interpolated.e) :
          Key(interpolated.e[t]) # S("env")
    /\ \A j \in (i + 1)..Len(EnvBlock) :
          Key(Val(interpolated.e[EnvIndex]).e[j]) # Key(Val(interpolated.e[EnvIndex]).e[i])

\* The pre-pass writes nothing into the document, and each string-valued
\* env entry (k, v) is, in the copy and in the result, the template v
\* interpolated by the walk against the Environment after the whole pre-pass.
EnvEntriesWalkedOnce ==
    (WalkSucceeded /\ HasEnvBlock) =>
        /\ pipeline = DecodeOrdered(doc)
        /\ \A i \in 1..Len(EnvBlock) :
              IsStringEntry(EnvBlock[i]) =>
                 /\ env = ExpectedEnv(env0, EnvBlock)
                 /\ Val(Val(interpolated.e[EnvIndex]).e[i]) = Str(WalkedValue(i))
                 /\ (pc = "Done" /\ ShownInResult(i)) =>
                        result.m[S("env")].m[Key(EnvBlock[i])] = Str(WalkedValue(i))

\* C9 as stated: the pre-pass never writes an interpolated value back into
\* the document; in a successful Parse each string-valued env entry (k, v)
\* is Interpolate(E_final, v) in the result, not the value
\* Interpolate(E_{i-1}, v) the pre-pass stored; and the two are equal for
\* every entry only when no entry references a variable that the same or a
\* later entry of the block sets.
C9_AsStated ==
    /\ EnvEntriesWalkedOnce
    /\ (pc = "Done" /\ HasEnvBlock /\ AllEntriesEqual) => NoLaterSetRef

\* C9 amended: as above, but the two values are equal for every entry
\* whenever no entry references a variable that the same or a later entry
\* of the block sets (they may also be equal when one does).
C9_EnvEntriesInterpolatedAgainstFinalEnv ==
    /\ EnvEntriesWalkedOnce
    /\ (pc = "Done" /\ HasEnvBlock /\ NoLaterSetRef) => AllEntriesEqual

\* Parse is done on a block whose first entry references Y, which the second
\* entry sets to another value: the result shows the first entry with the
\* value of Y after the pre-pass, the Environment holds the value before.
C9_Witness ==
    /\ pc = "Done"
    /\ HasEnvBlock
    /\ EnvBlock = <<Item(S("X"), S("$Y")), Item(S("Y"), S("a"))>>
    /\ env[<<"X">>] = <<"b">>
    /\ result.m[S("env")].m[S("X")] = S("a")

\* C10: a failed Parse does not roll the Environment back.  When the env
\* pre-pass fails at entry i (its key is no string, or the evaluator refuses
\* its value) the Environment holds exactly the Set calls of the
\* string-valued entries 1..i-1; when the pre-pass succeeds and the walk or
\* the normalisation fails, it holds all the declarations of the block,
\* though Parse returns an error and no result.
C10_NoRollbackOnFailure ==
    /\ FailedFrom = "EnvPrePass" =>
          /\ envIdx \in 1..Len(EnvBlock)
          /\ \/ Key(EnvBlock[envIdx]).t # "str"
             \/ /\ Val(EnvBlock[envIdx]).t = "str"
                /\ ~Interpolate(EnvBefore(envIdx), Val(EnvBlock[envIdx]).s).ok
          /\ env = EnvBefore(envIdx)
          /\ sets = ExpectedSets(env0, SubSeq(EnvBlock, 1, envIdx - 1))
          /\ result = Null /\ err # NoErr
    /\ (FailedFrom \in {"EnvPrePassed", "Interpolated"} /\ HasEnvBlock) =>
          /\ env = ExpectedEnv(env0, EnvBlock)
          /\ sets = ExpectedSets(env0, EnvBlock)
          /\ result = Null /\ err # NoErr

\* The pre-pass has failed at its second entry, the Environment holding the
\* declaration of the first.
C10_Witness ==
    /\ FailedFrom = "EnvPrePass"
    /\ envIdx = 2
    /\ Len(sets) = 1
    /\ env # env0

=============================================================================
